---- MODULE Spec2Model ----
(***************************************************************************)
(* A model of the fpds_analysis pipeline: DataLoader.load_json_files with  *)
(* its content-hash registry (src/src/data_loader.py), DataProcessor       *)
(* (src/src/data_processor.py) and the merge-and-save part of main         *)
(* (src/src/main.py).                                                      *)
(*                                                                         *)
(* Strings are sequences of one-character strings.  A file is identified   *)
(* by its name (a number; names sort as numbers) and holds one of six      *)
(* contents; its SHA-256 digest is a function of the content alone.        *)
(***************************************************************************)
EXTENDS Integers, Sequences, FiniteSets, TLC

\* ------------------------------------------------------------- bounds
MaxFiles == 2
MaxRuns == 2
MaxLen == 3
MaxRows == 4

\* ------------------------------------------------------------- helpers
Range(s) == {s[k] : k \in DOMAIN s}

Min(S) == CHOOSE x \in S : \A y \in S : x <= y

RECURSIVE sorted(_)
\* Python's sorted() over a set of mutually comparable values.
sorted(S) == IF S = {} THEN <<>> ELSE <<Min(S)>> \o sorted(S \ {Min(S)})

RECURSIVE Flatten(_)
Flatten(ss) == IF ss = <<>> THEN <<>> ELSE Head(ss) \o Flatten(Tail(ss))

\* ------------------------------------------------------------- characters
Letters == {"a", "b"}
Digits == {"1"}
\* "eacute" stands for a non-ASCII letter: str.isalnum() accepts it.
UnicodeLetters == {"eacute"}
Alphabet == Letters \cup Digits \cup UnicodeLetters \cup {"_", "@", "#", " ", "-", ".", "$"}

isalnum(c) == c \in Letters \cup Digits \cup UnicodeLetters
isdigit(c) == c \in Digits

RECURSIVE replace(_, _, _)
\* str.replace(old, new) for a one-character old and a new of length 0 or 1.
replace(s, old, new) ==
    IF s = <<>> THEN <<>>
    ELSE (IF Head(s) = old THEN new ELSE <<Head(s)>>) \o replace(Tail(s), old, new)

RECURSIVE split(_, _)
\* str.split(sep): the segments between separators, empty ones included.
split(s, sep) ==
    IF \A k \in DOMAIN s : s[k] # sep THEN <<s>>
    ELSE LET p == Min({k \in DOMAIN s : s[k] = sep})
         IN <<SubSeq(s, 1, p - 1)>> \o split(SubSeq(s, p + 1, Len(s)), sep)

\* ------------------------------------------------------------- DataProcessor
\* new_name[0] on an empty string raises IndexError; the marker is no string
\* over Alphabet.
IndexError == <<"IndexError">>

Replaced(name) ==
    replace(replace(replace(replace(replace(name, "@", <<>>), "#", <<>>),
                            " ", <<"_">>), "-", <<"_">>), ".", <<"_">>)

Filtered(name) == SelectSeq(Replaced(name), LAMBDA c : isalnum(c) \/ c = "_")

\* Variant: the "_" is prepended whatever the first character is.
sanitize_always_prefix(name) ==
    LET new_name == Filtered(name)
    IN IF new_name = <<>> THEN IndexError ELSE <<"_">> \o new_name

\* sanitize_column_names on a string (on a tuple it maps itself over the
\* elements); new_name[0] raises IndexError on "".
sanitize_column_names(name) ==
    LET new_name == Filtered(name)
    IN IF new_name = <<>> THEN IndexError
       ELSE IF isdigit(new_name[1]) THEN <<"_">> \o new_name ELSE new_name

PathError == <<IndexError>>

\* The ColumnPath create_dataframe gives one flattened key: sanitize the
\* whole key, then split it on "_".
column_path(col) ==
    LET sanitized == sanitize_column_names(col)
    IN IF sanitized = IndexError THEN PathError ELSE split(sanitized, "_")

\* ------------------------------------------------------------- records
NaN == <<>>

\* A raw record: where it comes from (<<content, position>>) and the
\* flattened keys json_normalize(sep="_") gives it.
Record(src, keys) == [src |-> src, keys |-> keys]

FlatKeys(rec) == rec.keys

EmptyDataFrame == [columns |-> {}, rows |-> <<>>]
Raised == [error |-> "IndexError"]

\* create_dataframe: json_normalize, sanitize, split into ColumnPaths.
create_dataframe(recs) ==
    LET keys == UNION {FlatKeys(recs[k]) : k \in DOMAIN recs}
        paths == {column_path(col) : col \in keys}
    IN IF PathError \in paths THEN Raised
       ELSE [columns |-> paths,
             rows |-> [k \in DOMAIN recs |->
                 [index |-> k - 1,
                  cells |-> [p \in paths |->
                      IF \E col \in FlatKeys(recs[k]) : column_path(col) = p
                      THEN recs[k].src ELSE NaN]]]]

Widen(row, columns) ==
    [p \in columns |-> IF p \in DOMAIN row.cells THEN row.cells[p] ELSE NaN]

\* Variant: pd.concat([a, b]) without ignore_index.
concat_keep_index(a, b) ==
    LET columns == a.columns \cup b.columns
        both == a.rows \o b.rows
    IN [columns |-> columns,
        rows |-> [k \in DOMAIN both |->
            [index |-> both[k].index, cells |-> Widen(both[k], columns)]]]

\* pd.concat([a, b], ignore_index=True)
concat(a, b) ==
    LET columns == a.columns \cup b.columns
        both == a.rows \o b.rows
    IN [columns |-> columns,
        rows |-> [k \in DOMAIN both |->
            [index |-> k - 1, cells |-> Widen(both[k], columns)]]]

\* ------------------------------------------------------------- files
Names == 1..MaxFiles
Contents == 1..6

\* SHA-256 of a file's bytes: one digest per content, whatever the name.
HashOfContent(c) == 100 + c

\* What open(..., encoding="utf-8") + json.load make of each content.
json_load(c) ==
    CASE c = 1 -> [kind |-> "list",
                   items |-> <<Record(<<1, 1>>, {<<"a", "-", "b">>})>>]
      [] c = 2 -> [kind |-> "list",
                   items |-> <<Record(<<2, 1>>, {<<"a", "-", "b">>, <<"b">>}),
                               Record(<<2, 2>>, {<<"b">>})>>]
      [] c = 3 -> [kind |-> "dict",
                   items |-> <<Record(<<3, 1>>, {<<"b">>})>>]
      [] c = 4 -> [kind |-> "other", items |-> <<>>]
      [] c = 5 -> [kind |-> "JSONDecodeError", items |-> <<>>]
      [] OTHER -> [kind |-> "UnicodeDecodeError", items |-> <<>>]

Parses(c) == json_load(c).kind \in {"list", "dict", "other"}

Directories == UNION {[S -> Contents] : S \in SUBSET Names}

NoRegistry == [exists |-> FALSE, lines |-> <<>>]
NoParquet == [exists |-> FALSE]
None == [none |-> TRUE]

VARIABLES
    isDir,                  \* data_path.is_dir()
    dirFiles,               \* the *.json files of the directory: name -> content
    regFile,                \* processed_hashes.txt
    parquet,                \* the persisted table
    pc, nruns,
    existing_df, df,        \* main's locals
    processed_hashes, files_to_process, i, data, newly_processed_hashes,
    outcome,                \* of load_json_files: "none", "returned", "raised"
    exc,                    \* the exception that left main, or "none"
    regAtStart,             \* history: regFile when the run began
    writes,                 \* history: calls of _write_processed_files this run
    writeOK,                \* history: no registry write of this run failed
    readOK,                 \* history: the registry read of this run succeeded
    unchanged,              \* history: nothing changed since a run that returned and persisted
    idem,                   \* history: this run repeats such a run
    name, new_name, again, new_df, nstep,  \* sanitize_column_names and create_dataframe on one name
    frame, metric, mstep,            \* calcualte_contract_metrics on one frame
    contracts, canceled, fstep       \* get_canceled_contracts on one table

pipeVars == <<isDir, dirFiles, regFile, parquet, pc, nruns, existing_df, df,
              processed_hashes, files_to_process, i, data, newly_processed_hashes,
              outcome, exc, regAtStart, writes, writeOK, readOK, unchanged, idem>>
normVars == <<name, new_name, again, new_df, nstep>>
metricVars == <<frame, metric, mstep>>
filterVars == <<contracts, canceled, fstep>>
vars == <<pipeVars, normVars, metricVars, filterVars>>

\* ------------------------------------------------------------- metrics
NoMetric == [kind |-> "none", n |-> 0]

\* Cell values of the selected column: a number, a string, or missing.
Num(n) == [t |-> "num", n |-> n, s |-> <<>>]
Str(s) == [t |-> "str", n |-> 0, s |-> s]
Null == [t |-> "null", n |-> 0, s |-> <<>>]

CellValues == {Num(10), Num(5), Str(<<"7">>), Str(<<"b", "a", "d">>), Null}

DecimalDigits == {"0", "1", "2", "3", "4", "5", "6", "7", "8", "9"}

DigitValue(c) ==
    CASE c = "0" -> 0 [] c = "1" -> 1 [] c = "2" -> 2 [] c = "3" -> 3 [] c = "4" -> 4
      [] c = "5" -> 5 [] c = "6" -> 6 [] c = "7" -> 7 [] c = "8" -> 8 [] OTHER -> 9

RECURSIVE ParseDigits(_)
ParseDigits(s) ==
    IF s = <<>> THEN 0 ELSE 10 * ParseDigits(SubSeq(s, 1, Len(s) - 1)) + DigitValue(s[Len(s)])

\* pd.to_numeric(value, errors="coerce") on one value: the number, or the
\* missing marker when the value is no number.
coerce(v) ==
    CASE v.t = "num" -> v
      [] v.t = "str" /\ v.s # <<>> /\ (\A k \in DOMAIN v.s : v.s[k] \in DecimalDigits) ->
             Num(ParseDigits(v.s))
      [] OTHER -> Null

RECURSIVE SumSkipNa(_)
\* Series.sum(): missing values are skipped; the sum of nothing is 0.
SumSkipNa(col) ==
    IF col = <<>> THEN 0
    ELSE (IF Head(col).t = "num" THEN Head(col).n ELSE 0) + SumSkipNa(Tail(col))

\* One metric of calcualte_contract_metrics over the one-column selection
\* `col`: squeeze() makes a one-row selection a scalar and any other a
\* Series; to_numeric coerces either; a Series sums skipping the missing
\* values, a scalar's sum() is the scalar itself, missing included.
contract_metric(col) ==
    IF Len(col) = 1
    THEN LET scalar == coerce(col[1])
         IN IF scalar.t = "num" THEN [kind |-> "float", n |-> scalar.n]
            ELSE [kind |-> "nan", n |-> 0]
    ELSE [kind |-> "float", n |-> SumSkipNa([k \in DOMAIN col |-> coerce(col[k])])]

\* ------------------------------------------------------------- filter
\* A value of the reasonForModification description column: a string, or
\* missing.
Text(s) == [na |-> FALSE, s |-> s]
Missing == [na |-> TRUE, s |-> ""]

reason_value == "TERMINATE FOR CONVENIENCE (COMPLETE OR PARTIAL)"

ReasonValues == {Text(reason_value), Text("CLOSE OUT"), Text(""), Missing}

\* fillna(value) on one cell
fillna(cell, value) == IF cell.na THEN Text(value) ELSE cell

\* Variant: df.loc[mask] without reset_index(drop=True).
filter_keep_index(rows) ==
    SelectSeq(rows, LAMBDA r : fillna(r.reason, "") = Text(reason_value))

\* get_canceled_contracts: the rows whose reason, missing values filled with
\* "", equals reason_value; reset_index(drop=True) renumbers them.
get_canceled_contracts(rows) ==
    LET mask(r) == fillna(r.reason, "") = Text(reason_value)
        kept == SelectSeq(rows, mask)
    IN [k \in DOMAIN kept |-> [kept[k] EXCEPT !.index = k - 1]]

\* ------------------------------------------------------------- registry
\* _calculate_file_hash
_calculate_file_hash(f) == HashOfContent(dirFiles[f])

\* Variant: the registry is never read back.
_read_nothing(fails) == {}

\* _read_processed_files: the set of lines, or set() when the file is absent
\* or reading it raises.
_read_processed_files(fails) ==
    IF regFile.exists /\ ~fails THEN Range(regFile.lines) ELSE {}

\* What _write_processed_files(hashes) can leave on disk.  ok: the sorted
\* lines.  Otherwise open() failed (nothing changes) or a write failed after
\* open("w") truncated the file (some complete lines short of all are there).
WriteResults(hashes) ==
    [ok : {TRUE}, file : {[exists |-> TRUE, lines |-> sorted(hashes)]}]
    \cup [ok : {FALSE}, file : {regFile}]
    \cup [ok : {FALSE},
          file : {[exists |-> TRUE, lines |-> SubSeq(sorted(hashes), 1, n)] :
                    n \in 0..(Cardinality(hashes) - 1)}]

\* ------------------------------------------------------------- the run
NoLocals ==
    /\ processed_hashes' = {}
    /\ files_to_process' = <<>>
    /\ i' = 0
    /\ data' = <<>>
    /\ newly_processed_hashes' = {}

\* main, lines 12-31: read the persisted table when there is one.
\* config.use_live_data is False (Config.from_env).
MainStart ==
    /\ pc \in {"idle", "done"}
    /\ nruns < MaxRuns
    /\ nruns' = nruns + 1
    /\ existing_df' = IF parquet.exists THEN parquet.table ELSE None
    /\ df' = IF parquet.exists THEN parquet.table ELSE EmptyDataFrame
    /\ NoLocals
    /\ outcome' = "none"
    /\ exc' = "none"
    /\ regAtStart' = regFile
    /\ writes' = 0
    /\ writeOK' = TRUE
    /\ readOK' = TRUE
    /\ idem' = FALSE
    /\ pc' = "load"
    /\ UNCHANGED <<isDir, dirFiles, regFile, parquet, unchanged>>

\* Variant: an empty list instead of the exception, as the earlier
\* load_fpds_data_from_directory did.
LoadReturnEmpty(what) ==
    /\ outcome' = "returned"
    /\ exc' = "none"
    /\ pc' = "loaded"
    /\ unchanged' = TRUE
    /\ UNCHANGED <<processed_hashes, files_to_process, i, newly_processed_hashes,
                   readOK, idem>>

\* load_json_files, lines 81-82 and 88-89: raise FileNotFoundError.
LoadRaise(what) ==
    /\ outcome' = "raised"
    /\ exc' = what
    /\ pc' = "done"
    /\ unchanged' = FALSE
    /\ UNCHANGED <<processed_hashes, files_to_process, i, newly_processed_hashes,
                   readOK, idem>>

\* load_json_files, lines 78-101: the checks, the registry read, the
\* selection of the files whose hash is not in the registry.
LoadStart ==
    /\ pc = "load"
    /\ data' = <<>>
    /\ IF ~isDir THEN LoadRaise("FileNotFoundError: Directory not found")
       ELSE \E fails \in (IF regFile.exists THEN BOOLEAN ELSE {FALSE}) :
            LET hashes == _read_processed_files(fails)
                json_files == sorted(DOMAIN dirFiles)
                selected == SelectSeq(json_files,
                                LAMBDA f : _calculate_file_hash(f) \notin hashes)
            IN IF json_files = <<>>
               THEN /\ LoadRaise("FileNotFoundError: No JSON files found")
               ELSE /\ processed_hashes' = hashes
                    /\ newly_processed_hashes' = {}
                    /\ files_to_process' = selected
                    /\ readOK' = ~fails
                    /\ idem' = (unchanged /\ ~fails)
                    /\ IF selected = <<>>
                       THEN /\ outcome' = "returned"
                            /\ pc' = "loaded"
                            /\ i' = 0
                            /\ unchanged' = TRUE
                       ELSE /\ outcome' = "none"
                            /\ pc' = "loop"
                            /\ i' = 1
                            /\ UNCHANGED unchanged
                    /\ exc' = "none"
    /\ UNCHANGED <<isDir, dirFiles, regFile, parquet, nruns, existing_df, df,
                   regAtStart, writes, writeOK>>

\* Variant: the hash is added whether or not json.load decoded the file.
ProcessFileMarkAll ==
    /\ pc = "loop"
    /\ i <= Len(files_to_process)
    /\ LET file_path == files_to_process[i]
           file_hash == _calculate_file_hash(file_path)
           file_data == json_load(dirFiles[file_path])
       IN IF file_data.kind = "UnicodeDecodeError"
          THEN /\ outcome' = "raised"
               /\ exc' = "UnicodeDecodeError"
               /\ pc' = "done"
               /\ unchanged' = FALSE
               /\ UNCHANGED <<data, newly_processed_hashes, i>>
          ELSE /\ data' = data \o file_data.items
               /\ newly_processed_hashes' = newly_processed_hashes \cup {file_hash}
               /\ i' = i + 1
               /\ UNCHANGED <<outcome, exc, pc, unchanged>>
    /\ UNCHANGED <<isDir, dirFiles, regFile, parquet, nruns, existing_df, df,
                   processed_hashes, files_to_process, regAtStart, writes, writeOK,
                   readOK, idem>>

\* load_json_files, lines 103-115: one iteration of the loop.  Only
\* json.JSONDecodeError is caught; a UnicodeDecodeError raised by the read
\* inside json.load leaves load_json_files and main.
ProcessFile ==
    /\ pc = "loop"
    /\ i <= Len(files_to_process)
    /\ LET file_path == files_to_process[i]
           file_hash == _calculate_file_hash(file_path)
           file_data == json_load(dirFiles[file_path])
       IN CASE file_data.kind = "JSONDecodeError" ->
                 /\ i' = i + 1
                 /\ UNCHANGED <<data, newly_processed_hashes, outcome, exc, pc, unchanged>>
            [] file_data.kind = "UnicodeDecodeError" ->
                 /\ outcome' = "raised"
                 /\ exc' = "UnicodeDecodeError"
                 /\ pc' = "done"
                 /\ unchanged' = FALSE
                 /\ UNCHANGED <<data, newly_processed_hashes, i>>
            [] OTHER ->
                 /\ data' = (IF file_data.kind \in {"list", "dict"}
                             THEN data \o file_data.items ELSE data)
                 /\ newly_processed_hashes' = newly_processed_hashes \cup {file_hash}
                 /\ i' = i + 1
                 /\ UNCHANGED <<outcome, exc, pc, unchanged>>
    /\ UNCHANGED <<isDir, dirFiles, regFile, parquet, nruns, existing_df, df,
                   processed_hashes, files_to_process, regAtStart, writes, writeOK,
                   readOK, idem>>

\* Variant: only the new hashes are written back.
only_new_hashes == newly_processed_hashes

\* line 118
update_processed_hashes == processed_hashes \cup newly_processed_hashes

\* load_json_files, lines 117-121: persist the union once, when there is
\* something new, and return.
LoadFinish ==
    /\ pc = "loop"
    /\ i > Len(files_to_process)
    /\ IF newly_processed_hashes # {}
       THEN \E w \in WriteResults(update_processed_hashes) :
                /\ regFile' = w.file
                /\ writes' = writes + 1
                /\ writeOK' = w.ok
                /\ unchanged' = w.ok
       ELSE /\ UNCHANGED <<regFile, writes, writeOK>>
            /\ unchanged' = TRUE
    /\ outcome' = "returned"
    /\ pc' = "loaded"
    /\ UNCHANGED <<isDir, dirFiles, parquet, nruns, existing_df, df, processed_hashes,
                   files_to_process, i, data, newly_processed_hashes, exc, regAtStart,
                   readOK, idem>>

\* main, lines 39-62: build the new table, merge it with the loaded one,
\* save.  create_dataframe or to_parquet may raise; the table on disk is
\* then the old one.
MainMerge ==
    /\ pc = "loaded"
    /\ IF data # <<>>
       THEN LET new_data_df == create_dataframe(data)
                merged == IF existing_df # None
                          THEN concat(existing_df, new_data_df) ELSE new_data_df
            IN IF new_data_df = Raised
               THEN /\ exc' = "IndexError"
                    /\ UNCHANGED <<df, parquet>>
               ELSE \E saved \in BOOLEAN :
                    /\ df' = merged
                    /\ parquet' = IF saved THEN [exists |-> TRUE, table |-> merged]
                                  ELSE parquet
                    /\ exc' = IF saved THEN "none" ELSE "OSError"
       ELSE /\ df' = IF existing_df # None THEN existing_df ELSE EmptyDataFrame
            /\ UNCHANGED <<parquet, exc>>
    /\ pc' = "done"
    /\ UNCHANGED <<isDir, dirFiles, regFile, nruns, existing_df, processed_hashes,
                   files_to_process, i, data, newly_processed_hashes, outcome,
                   regAtStart, writes, writeOK, readOK, unchanged, idem>>

\* ------------------------------------------------------------- the operator
\* Between runs the person running the pipeline drops a new file into the directory ...
AddFile ==
    /\ pc \in {"idle", "done"}
    /\ isDir
    /\ \E f \in Names \ DOMAIN dirFiles, c \in Contents :
           dirFiles' = [g \in DOMAIN dirFiles \cup {f} |->
                           IF g = f THEN c ELSE dirFiles[g]]
    /\ unchanged' = FALSE
    /\ pc' = "idle"
    /\ UNCHANGED <<isDir, regFile, parquet, nruns, existing_df, df,
                   processed_hashes, files_to_process, i, data, newly_processed_hashes,
                   outcome, exc, regAtStart, writes, writeOK, readOK, idem>>

\* ... or creates the missing directory.
MakeDirectory ==
    /\ pc \in {"idle", "done"}
    /\ ~isDir
    /\ isDir' = TRUE
    /\ unchanged' = FALSE
    /\ pc' = "idle"
    /\ UNCHANGED <<dirFiles, regFile, parquet, nruns, existing_df, df,
                   processed_hashes, files_to_process, i, data, newly_processed_hashes,
                   outcome, exc, regAtStart, writes, writeOK, readOK, idem>>

PipeInit ==
    /\ isDir \in BOOLEAN
    /\ dirFiles \in Directories
    /\ ~isDir => dirFiles = <<>>
    /\ regFile = NoRegistry
    /\ parquet = NoParquet
    /\ pc = "idle"
    /\ nruns = 0
    /\ existing_df = None
    /\ df = EmptyDataFrame
    /\ processed_hashes = {}
    /\ files_to_process = <<>>
    /\ i = 0
    /\ data = <<>>
    /\ newly_processed_hashes = {}
    /\ outcome = "none"
    /\ exc = "none"
    /\ regAtStart = NoRegistry
    /\ writes = 0
    /\ writeOK = TRUE
    /\ readOK = TRUE
    /\ unchanged = FALSE
    /\ idem = FALSE

\* No pipeline: the directory is missing and nothing runs.
PipeOff == PipeInit /\ ~isDir

NormOff ==
    /\ name = <<>>
    /\ new_name = <<>>
    /\ again = <<>>
    /\ new_df = EmptyDataFrame
    /\ nstep = "off"

FilterOff ==
    /\ contracts = <<>>
    /\ canceled = <<>>
    /\ fstep = "off"

MetricOff ==
    /\ frame = <<>>
    /\ metric = NoMetric
    /\ mstep = "off"

Init == PipeInit /\ NormOff /\ MetricOff /\ FilterOff

Next ==
    \/ (MainStart /\ UNCHANGED <<normVars, metricVars, filterVars>>)
    \/ (LoadStart /\ UNCHANGED <<normVars, metricVars, filterVars>>)
    \/ (ProcessFile /\ UNCHANGED <<normVars, metricVars, filterVars>>)
    \/ (LoadFinish /\ UNCHANGED <<normVars, metricVars, filterVars>>)
    \/ (MainMerge /\ UNCHANGED <<normVars, metricVars, filterVars>>)
    \/ (AddFile /\ UNCHANGED <<normVars, metricVars, filterVars>>)
    \/ (MakeDirectory /\ UNCHANGED <<normVars, metricVars, filterVars>>)

Spec == Init /\ [][Next]_vars

\* ------------------------------------------------------------- one column name
Strings == UNION {[1..n -> Alphabet] : n \in 0..MaxLen}

\* sanitize_column_names(name)
Sanitize ==
    /\ nstep = "start"
    /\ new_name' = sanitize_column_names(name)
    /\ nstep' = "once"
    /\ UNCHANGED <<name, again, new_df>>

\* sanitize_column_names on its own result
SanitizeAgain ==
    /\ nstep = "once"
    /\ new_name # IndexError
    /\ again' = sanitize_column_names(new_name)
    /\ nstep' = "twice"
    /\ UNCHANGED <<name, new_name, new_df>>

\* create_dataframe([{name: ...}])
CreateDataframe ==
    /\ nstep = "start"
    /\ new_df' = create_dataframe(<<Record(<<0, 1>>, {name})>>)
    /\ nstep' = "frame"
    /\ UNCHANGED <<name, new_name, again>>

InitNorm ==
    /\ PipeOff
    /\ MetricOff
    /\ FilterOff
    /\ name \in Strings
    /\ new_name = <<>>
    /\ again = <<>>
    /\ new_df = EmptyDataFrame
    /\ nstep = "start"

NextNorm ==
    \/ (Sanitize /\ UNCHANGED <<pipeVars, metricVars, filterVars>>)
    \/ (SanitizeAgain /\ UNCHANGED <<pipeVars, metricVars, filterVars>>)
    \/ (CreateDataframe /\ UNCHANGED <<pipeVars, metricVars, filterVars>>)

SpecNorm == InitNorm /\ [][NextNorm]_vars

\* ------------------------------------------------------------- one selected column
Columns == UNION {[1..n -> CellValues] : n \in 0..MaxRows}

\* calcualte_contract_metrics on the rows of the cancelled contracts
ComputeMetric ==
    /\ mstep = "start"
    /\ metric' = contract_metric(frame)
    /\ mstep' = "done"
    /\ UNCHANGED frame

InitMetrics ==
    /\ PipeOff
    /\ NormOff
    /\ FilterOff
    /\ frame \in Columns
    /\ metric = NoMetric
    /\ mstep = "start"

NextMetrics == ComputeMetric /\ UNCHANGED <<pipeVars, normVars, filterVars>>

SpecMetrics == InitMetrics /\ [][NextMetrics]_vars

\* ------------------------------------------------------------- one table to filter
\* Tables as main hands them over: index 0..N-1; `row` stands for the
\* other cells of the row.
ContractTables ==
    UNION {{[k \in 1..n |-> [index |-> k - 1, row |-> k, reason |-> reasons[k]]] :
               reasons \in [1..n -> ReasonValues]} : n \in 0..MaxRows}

\* get_canceled_contracts(df)
FilterCanceled ==
    /\ fstep = "start"
    /\ canceled' = get_canceled_contracts(contracts)
    /\ fstep' = "done"
    /\ UNCHANGED contracts

InitFilter ==
    /\ PipeOff
    /\ NormOff
    /\ MetricOff
    /\ contracts \in ContractTables
    /\ canceled = <<>>
    /\ fstep = "start"

NextFilter == FilterCanceled /\ UNCHANGED <<pipeVars, normVars, metricVars>>

SpecFilter == InitFilter /\ [][NextFilter]_vars

\* ------------------------------------------------------------- ingestion claims
Selected == Range(files_to_process)

\* The selected files the loop has opened so far (the one that raised included).
Attempted ==
    {files_to_process[k] : k \in {k \in DOMAIN files_to_process :
                                     k < i \/ (k = i /\ outcome = "raised")}}

RunEnded == pc \in {"loaded", "done"}

\* The run has selected its files and the directory is as the run saw it.
SelectionMade ==
    \/ pc = "loop"
    \/ RunEnded /\ (outcome = "returned" \/ exc = "UnicodeDecodeError")

\* The records of the selected files that parse, in file order.
ExpectedData ==
    Flatten([k \in DOMAIN files_to_process |->
                IF json_load(dirFiles[files_to_process[k]]).kind \in {"list", "dict"}
                THEN json_load(dirFiles[files_to_process[k]]).items ELSE <<>>])

\* C1: a run that repeats, on the unchanged directory, a run that returned
\* and whose registry was persisted and is read back, returns no records.
C1_IdempotentIngestion ==
    (outcome = "returned" /\ idem) => data = <<>>

C1_Witness ==
    /\ outcome = "returned"
    /\ idem
    /\ Cardinality(DOMAIN dirFiles) = 2
    /\ Len(regFile.lines) = 2

\* C2: a file the loop has opened has its hash among the newly processed
\* hashes exactly when it parsed (as a list, a dict or anything else); the
\* registry never holds the hash of a content that does not parse, and every
\* file that does not parse is selected by every run that selects.
C2_MarkedIffParsed ==
    /\ \A f \in Attempted :
          _calculate_file_hash(f) \in newly_processed_hashes <=> Parses(dirFiles[f])
    /\ newly_processed_hashes \subseteq {_calculate_file_hash(f) : f \in Attempted}
    /\ \A h \in Range(regFile.lines) : \E c \in Contents : h = HashOfContent(c) /\ Parses(c)
    /\ SelectionMade =>
          \A f \in DOMAIN dirFiles : ~Parses(dirFiles[f]) => f \in Selected

C2_Witness ==
    /\ idem
    /\ pc = "loaded"
    /\ files_to_process # <<>>
    /\ \E f \in Attempted : json_load(dirFiles[f]).kind = "JSONDecodeError"
    /\ Len(regFile.lines) > 0

\* C3: whatever makes one selected file unreadable, the run returns, with the
\* records of every other selected file, and persists their hashes.
C3_MalformedFileNeverAborts ==
    (RunEnded /\ files_to_process # <<>>) =>
        /\ outcome = "returned"
        /\ data = ExpectedData
        /\ writeOK =>
              \A f \in Selected : Parses(dirFiles[f]) =>
                  _calculate_file_hash(f) \in Range(regFile.lines)

\* C4: the run raises when the path is no directory or holds no *.json file,
\* returns an empty list when every file's hash is in the registry, and in
\* all three cases leaves the registry file as it was.
C4_NoDataVersusNoNewData ==
    RunEnded =>
        /\ ~isDir =>
              /\ outcome = "raised"
              /\ exc = "FileNotFoundError: Directory not found"
              /\ regFile = regAtStart
        /\ (isDir /\ DOMAIN dirFiles = {}) =>
              /\ outcome = "raised"
              /\ exc = "FileNotFoundError: No JSON files found"
              /\ regFile = regAtStart
        /\ (/\ isDir
            /\ DOMAIN dirFiles # {}
            /\ readOK
            /\ \A f \in DOMAIN dirFiles :
                  _calculate_file_hash(f) \in Range(regAtStart.lines)) =>
              /\ outcome = "returned"
              /\ data = <<>>
              /\ regFile = regAtStart

C4_Witness ==
    /\ pc = "loaded"
    /\ outcome = "returned"
    /\ files_to_process = <<>>
    /\ Cardinality(DOMAIN dirFiles) = 2
    /\ regFile.exists

\* C5: a run calls the registry write at most once, after the loop, and only
\* with a new hash; a write that succeeds leaves exactly the hashes read at
\* the start and the new ones, each once; without a write the file is as it was.
C5_RegistryWrittenOnce ==
    /\ writes <= 1
    /\ writes = 0 => regFile = regAtStart
    /\ writes = 1 =>
          /\ newly_processed_hashes # {}
          /\ i > Len(files_to_process)
          /\ outcome = "returned"
          /\ writeOK =>
                /\ regFile.exists
                /\ Range(regFile.lines) =
                      (IF readOK THEN Range(regAtStart.lines) ELSE {})
                          \cup newly_processed_hashes
                /\ Len(regFile.lines) = Cardinality(Range(regFile.lines))

C5_Witness ==
    /\ writes = 1
    /\ writeOK
    /\ readOK
    /\ Len(regAtStart.lines) = 1
    /\ Len(regFile.lines) = 2

TwoIdenticalFiles ==
    /\ DOMAIN dirFiles = {1, 2}
    /\ dirFiles[1] = dirFiles[2]
    /\ Len(json_load(dirFiles[1]).items) = 1

\* C6: two files with the same bytes, one record each, empty registry: the
\* run surfaces 1 record and leaves 1 hash; the run repeated surfaces none.
C6_DuplicateContentOnce ==
    (TwoIdenticalFiles /\ RunEnded /\ outcome = "returned") =>
        IF idem THEN data = <<>>
        ELSE (regAtStart.lines = <<>> /\ writeOK) =>
                /\ Len(data) = 1
                /\ Len(regFile.lines) = 1

\* ------------------------------------------------------------- merge claim
RowsAgree(merged, table, offset) ==
    \A k \in DOMAIN table.rows :
        /\ merged.rows[offset + k].index = offset + k - 1
        /\ \A p \in table.columns :
              merged.rows[offset + k].cells[p] = table.rows[k].cells[p]

\* C7: the merged table has the m rows of the loaded table, in order, then
\* the n rows of the new one, in order, indexed 0..m+n-1; without a loaded
\* table it is the new table.
C7_MergeKeepsRows ==
    (pc = "done" /\ outcome = "returned" /\ data # <<>> /\ exc # "IndexError") =>
        LET incoming == create_dataframe(data)
        IN IF existing_df = None THEN df = incoming
           ELSE /\ Len(df.rows) = Len(existing_df.rows) + Len(incoming.rows)
                /\ RowsAgree(df, existing_df, 0)
                /\ RowsAgree(df, incoming, Len(existing_df.rows))
                /\ \A k \in DOMAIN df.rows : df.rows[k].index = k - 1

C7_Witness ==
    /\ pc = "done"
    /\ outcome = "returned"
    /\ existing_df # None
    /\ Len(existing_df.rows) = 2
    /\ Len(data) = 1
    /\ existing_df.columns # create_dataframe(data).columns

\* ------------------------------------------------------------- column claims
\* ^_?[A-Za-z0-9_]+$ : "_" is in the class, so this is one or more of the class.
MatchesSegment(seg) ==
    /\ seg # <<>>
    /\ \A k \in DOMAIN seg : seg[k] \in Letters \cup Digits \cup {"_"}

\* C8: every ColumnPath of a table create_dataframe produces has a segment,
\* and every segment is non-empty and matches ^_?[A-Za-z0-9_]+$.
C8_SegmentsWellFormed ==
    (nstep = "frame" /\ new_df # Raised) =>
        \A path \in new_df.columns :
            /\ Len(path) >= 1
            /\ \A k \in DOMAIN path : MatchesSegment(path[k])

\* C10: sanitizing a sanitized name changes nothing.
C10_SanitizeIdempotent ==
    nstep = "twice" => again = new_name

C10_Witness ==
    /\ nstep = "twice"
    /\ Len(name) = 3
    /\ Len(new_name) = 3
    /\ new_name # name
    /\ new_name[1] = "_"
    /\ isdigit(new_name[2])

\* ------------------------------------------------------------- metric claim
RECURSIVE SumOfNumbers(_)
SumOfNumbers(col) ==
    IF col = <<>> THEN 0
    ELSE (CASE Head(col) = Num(10) -> 10
            [] Head(col) = Num(5) -> 5
            [] Head(col) = Str(<<"7">>) -> 7
            [] OTHER -> 0) + SumOfNumbers(Tail(col))

\* C9: the metric is the sum of the values that are numbers, the others left
\* out, and 0.0 when there is none.
C9_SafeNumericSum ==
    mstep = "done" => metric = [kind |-> "float", n |-> SumOfNumbers(frame)]

\* ------------------------------------------------------------- filter claim
Matching == {k \in DOMAIN contracts : contracts[k].reason = Text(reason_value)}

PersistedSources ==
    IF parquet.exists
    THEN {parquet.table.rows[k].cells[p] :
             k \in DOMAIN parquet.table.rows, p \in parquet.table.columns}
    ELSE {}

\* C12: when a run has ended, however it ended, every record of every
\* content whose hash is in the registry file has a row in the persisted
\* table.
C12_RegistryWithinTable ==
    pc = "done" =>
        \A c \in Contents :
            HashOfContent(c) \in Range(regFile.lines) =>
                \A k \in DOMAIN json_load(c).items :
                    json_load(c).items[k].src \in PersistedSources

====
